---------------------------- MODULE Spec2Model ----------------------------
(***************************************************************************)
(* Model of src/ad_recommender.py: the AdRecommender orchestrator (chat),  *)
(* the coherence judge's verdict parsing (_judge_topic), the product       *)
(* lookup (_shopping_search) and the blocking gateway call (_stream_chat). *)
(*                                                                         *)
(* Text is a sequence of one-character strings, so that splitlines, strip, *)
(* lower, endswith, split(":", 1) and slicing are computed as Python       *)
(* computes them.  Python's None is the one-token sequence PyNone.         *)
(*                                                                         *)
(* One chat call is cut into atomic steps at its blocking external calls   *)
(* (the primary generation, the judge's generation, the shopping search):  *)
(* between two of them the code runs without suspension.                   *)
(***************************************************************************)
EXTENDS Integers, Sequences, FiniteSets, TLC

(***************************************************************************)
(* Program constants.                                                      *)
(***************************************************************************)
TRIGGER_QS == 4
SNAPSHOT_LINES == 7
DescLimit == 160

(***************************************************************************)
(* Bounds of the model.  MAX_BUFFER_SIZE is 100 in the source (line 29);   *)
(* the model scales the capacity down so that eviction happens within      *)
(* MaxCalls calls.  It stays above SNAPSHOT_LINES and even, as 100 is.    *)
(***************************************************************************)
MAX_BUFFER_SIZE == 8
MaxCalls == 12
MaxFailures == 2
MaxRawLen == 3
MaxConcCalls == 5

Threads == {"t1", "t2"}
MainThread == "t1"

(***************************************************************************)
(* Python values and string methods.                                       *)
(***************************************************************************)
PyNone == <<"<None>">>
Ellipsis == <<"<...>">>
NoneStr == <<"N", "o", "n", "e">>
NoneLower == <<"n", "o", "n", "e">>
YesStr == <<"y", "e", "s">>

Truthy(v) == v # PyNone /\ v # <<>>

PyOr(a, b) == IF Truthy(a) THEN a ELSE b

Min(a, b) == IF a < b THEN a ELSE b

IsSpace(c) == c \in {" ", "\n", "\t"}

LowerChar(c) ==
    CASE c = "Y" -> "y"
      [] c = "E" -> "e"
      [] c = "S" -> "s"
      [] c = "N" -> "n"
      [] c = "O" -> "o"
      [] OTHER -> c

Lower(s) == [i \in 1..Len(s) |-> LowerChar(s[i])]

RECURSIVE LStrip(_)
LStrip(s) == IF s # <<>> /\ IsSpace(Head(s)) THEN LStrip(Tail(s)) ELSE s

RECURSIVE RStrip(_)
RStrip(s) ==
    IF s # <<>> /\ IsSpace(s[Len(s)]) THEN RStrip(SubSeq(s, 1, Len(s) - 1)) ELSE s

Strip(s) == RStrip(LStrip(s))

EndsWith(s, suffix) ==
    /\ Len(s) >= Len(suffix)
    /\ SubSeq(s, Len(s) - Len(suffix) + 1, Len(s)) = suffix

RECURSIVE SplitLinesAcc(_, _)
SplitLinesAcc(s, cur) ==
    IF s = <<>> THEN (IF cur = <<>> THEN <<>> ELSE <<cur>>)
    ELSE IF Head(s) = "\n" THEN <<cur>> \o SplitLinesAcc(Tail(s), <<>>)
    ELSE SplitLinesAcc(Tail(s), Append(cur, Head(s)))

SplitLines(s) == SplitLinesAcc(s, <<>>)

RECURSIVE FirstColonFrom(_, _)
FirstColonFrom(s, i) ==
    IF i > Len(s) THEN 0
    ELSE IF s[i] = ":" THEN i
    ELSE FirstColonFrom(s, i + 1)

SplitColonOnce(s) ==
    LET c == FirstColonFrom(s, 1)
    IN  IF c = 0 THEN <<s>>
        ELSE <<SubSeq(s, 1, c - 1), SubSeq(s, c + 1, Len(s))>>

Slice(s, n) == SubSeq(s, 1, Min(n, Len(s)))

\* s[-n:]; s[-0:] is the whole of s.
LastN(s, n) == IF n > 0 /\ Len(s) > n THEN SubSeq(s, Len(s) - n + 1, Len(s)) ELSE s

(***************************************************************************)
(* _stream_chat: the fragments joined in arrival order, then stripped.     *)
(***************************************************************************)
RECURSIVE Join(_)
Join(parts) == IF parts = <<>> THEN <<>> ELSE Head(parts) \o Join(Tail(parts))

StreamChat(parts) == Strip(Join(parts))

(***************************************************************************)
(* _judge_topic, lines 90-94: the verdict parsed from the raw response.    *)
(* raised is the IndexError of lines[i].split(":", 1)[1] on a line that    *)
(* holds no colon.                                                         *)
(***************************************************************************)
FieldRaises(lines, i) == Len(lines) >= i /\ Len(SplitColonOnce(lines[i])) < 2

FieldOf(lines, i) ==
    IF Len(lines) >= i THEN Strip(SplitColonOnce(lines[i])[2]) ELSE NoneStr

JudgeParse(raw) ==
    LET lines == SplitLines(raw)
        related == IF lines # <<>>
                   THEN EndsWith(Lower(Strip(lines[1])), YesStr)
                   ELSE FALSE
    IN  IF FieldRaises(lines, 2) \/ FieldRaises(lines, 3)
        THEN [raised |-> TRUE, related |-> related, topic |-> PyNone, ps |-> PyNone]
        ELSE [raised |-> FALSE, related |-> related,
              topic |-> FieldOf(lines, 2), ps |-> FieldOf(lines, 3)]

(***************************************************************************)
(* _shopping_search, lines 110-124.  A provider outcome is                 *)
(*   [kind |-> "error"]    GoogleSearch(...).get_dict() raises              *)
(*   [kind |-> "notdict"]  the payload is no dict: results.get raises      *)
(*   [kind |-> "dict"]     a dict; has_results tells whether it holds the  *)
(*                         key "shopping_results", a sequence of items     *)
(* and an item is [isdict |-> FALSE] (item.get raises) or a dict whose     *)
(* five fields are PyNone when the key is absent.                          *)
(***************************************************************************)
Item(link, product_link, title, snippet, description) ==
    [isdict |-> TRUE, link |-> link, product_link |-> product_link,
     title |-> title, snippet |-> snippet, description |-> description]

BadItem ==
    [isdict |-> FALSE, link |-> PyNone, product_link |-> PyNone,
     title |-> PyNone, snippet |-> PyNone, description |-> PyNone]

EmptyItem == Item(PyNone, PyNone, PyNone, PyNone, PyNone)

NoProduct == [some |-> FALSE, name |-> <<>>, link |-> <<>>, desc |-> <<>>]

Returned(v) == [raised |-> FALSE, value |-> v]
Raised == [raised |-> TRUE, value |-> NoProduct]

FirstItem(results) ==
    LET sr == results.shopping_results
    IN  IF results.has_results /\ sr # <<>> THEN sr[1] ELSE EmptyItem

\* The marker appended only when the text was cut.
DescribeCutOnly(text) ==
    IF Len(text) > DescLimit THEN Slice(text, DescLimit) \o Ellipsis ELSE text

\* Line 119: the first DescLimit characters, then the ellipsis marker.
Describe(text) == Slice(text, DescLimit) \o Ellipsis

SearchBody(out) ==
    IF out.kind # "dict" THEN Raised
    ELSE LET item == FirstItem(out)
         IN  IF ~item.isdict THEN Raised
             ELSE LET link == PyOr(PyOr(item.link, item.product_link), <<>>)
                  IN  IF ~Truthy(link) THEN Returned(NoProduct)
                      ELSE Returned(
                             [some |-> TRUE,
                              name |-> IF item.title = PyNone THEN <<>> ELSE item.title,
                              link |-> link,
                              desc |-> Describe(PyOr(PyOr(item.snippet, item.description),
                                                     <<>>))])

\* The search without its try/except.
SearchUncaught(out) == SearchBody(out)

ShoppingSearch(out) ==
    LET r == SearchBody(out)
    IN  IF r.raised THEN Returned(NoProduct) ELSE r

(***************************************************************************)
(* chat, lines 159 and 162: the two conditions of the recommendation.      *)
(***************************************************************************)
\* The trigger test off by one.
TriggerDueEarly(cnt) == cnt >= TRIGGER_QS - 1

TriggerDue(cnt) == cnt = TRIGGER_QS

\* The lookup made whatever the verdict.
WantsLookupAlways(related, ps) == TRUE

\* The sentinel compared case-sensitively.
WantsLookupCaseSensitive(related, ps) == related /\ ps # NoneStr

WantsLookup(related, ps) == related /\ Lower(ps) # NoneLower

(***************************************************************************)
(* Texts, buffer lines and gateway messages.  The k-th user message and    *)
(* the primary answer to it are texts told apart by k; ads counts the      *)
(* recommendation suffixes appended to an answer.                          *)
(***************************************************************************)
NoText == [txt |-> "-", n |-> 0, ads |-> 0]
UserMsg(k) == [txt |-> "q", n |-> k, ads |-> 0]
AnswerText(k) == [txt |-> "a", n |-> k, ads |-> 0]

Line(tag, text) == [tag |-> tag, body |-> text]

Msg(role, text) == [role |-> role, content |-> text]

SystemMsg == Msg("system", [txt |-> "style", n |-> 0, ads |-> 0])

AddSuffix(answer) == [answer EXCEPT !.ads = @ + 1]

(***************************************************************************)
(* chat, lines 131-132: capacity eviction.                                 *)
(***************************************************************************)
\* The oldest entry kept, the ones after it dropped.
TrimKeepFirst(buf, cap) ==
    IF Len(buf) > cap THEN <<buf[1]>> \o SubSeq(buf, Len(buf) - cap + 2, Len(buf)) ELSE buf

\* The newest entries dropped.
TrimKeepOldest(buf, cap) == IF Len(buf) > cap THEN SubSeq(buf, 1, cap) ELSE buf

TrimTo(buf, cap) == IF Len(buf) > cap THEN LastN(buf, cap) ELSE buf

Trim(buf) == TrimTo(buf, MAX_BUFFER_SIZE)

(***************************************************************************)
(* chat, line 160: the snapshot, the last SNAPSHOT_LINES buffer lines      *)
(* joined by newlines.                                                     *)
(***************************************************************************)
Newline == Line("\n", NoText)

RECURSIVE JoinLines(_)
JoinLines(lines) ==
    IF lines = <<>> THEN <<>>
    ELSE IF Len(lines) = 1 THEN lines
    ELSE <<Head(lines), Newline>> \o JoinLines(Tail(lines))

\* The window taken from the oldest end.
SnapshotOldest(buf) == JoinLines(Slice(buf, SNAPSHOT_LINES))

Snapshot(buf) == JoinLines(LastN(buf, SNAPSHOT_LINES))

(***************************************************************************)
(* chat, lines 135-142 and 145-155: the message list of the primary call.  *)
(***************************************************************************)
RECURSIVE CtxFrom(_, _)
CtxFrom(buf, i) ==
    IF i + 1 > Len(buf) THEN <<>>
    ELSE <<Msg("user", buf[i].body), Msg("assistant", buf[i + 1].body)>>
         \o CtxFrom(buf, i + 2)

BuildMessages(buf, user_msg) ==
    <<SystemMsg>> \o CtxFrom(buf, 1) \o <<Msg("user", user_msg)>>

(***************************************************************************)
(* What the gateway and the shopping provider may answer.                  *)
(***************************************************************************)
RECURSIVE SeqsUpTo(_, _)
SeqsUpTo(S, n) ==
    IF n = 0 THEN {<<>>}
    ELSE LET shorter == SeqsUpTo(S, n - 1)
         IN  shorter \cup {Append(s, c) : s \in shorter, c \in S}

SmallAlphabet == {"s", ":", "\n"}

CuratedJudgeTexts ==
    { <<" ", "y", "e", "s", "\n", "T", ":", " ", "s", "\n", "P", ":", " ", "b">>,
      <<"R", ":", " ", "Y", "E", "S", "\n", "T", ":", "s", "\n", "P", ":", "b", "\n">>,
      <<"n", "o", "\n", "T", ":", " ", "N", "o", "n", "e", "\n",
        "P", ":", " ", "N", "o", "n", "e">>,
      <<"n", "o", "\n", "T", ":", " ", "s", "\n", "P", ":", " ", "b">>,
      <<"y", "e", "s", "\n", "T", ":", " ", "s", "\n", "P", ":", " ", "N", "O", "N", "E">>,
      <<"y", "e", "s", "\n", "T", ":", " ", "s">>,
      <<"y", "e", "s">>,
      <<"y", "e", "s", "\n", "T", ":", " ", "s", "\n", "P", ":", " ", "b", "\n", "x">>,
      <<"y", "e", "s", "\n", "s", "\n", "P", ":", " ", "b">>,
      <<"y", "e", "s", "\n", "T", ":", " ", "s", "\n", "b">>,
      <<"y", "e", "s", "\n", "\n", "T", ":", " ", "s", "\n", "P", ":", " ", "b">>,
      <<"y", "e", "s", ".", "\n", "T", ":", " ", "s", "\n", "P", ":", " ", "b">>,
      <<"y", "e", "s", "\n", "T", ":", " ", "s", "\n", "P", ":">>,
      <<"y", "e", "s", "\n", "T", ":", " ", "s", ":", "s", "\n", "P", ":", " ", "b">> }

JudgeTexts == CuratedJudgeTexts \cup SeqsUpTo(SmallAlphabet, MaxRawLen)

\* The provider delivers a text in fragments.
Fragments(text) ==
    IF Len(text) > 1 THEN <<SubSeq(text, 1, 1), SubSeq(text, 2, Len(text))>>
    ELSE <<text>>

Rep(n) == [i \in 1..n |-> "d"]

Url1 == <<"u", "1">>
Url2 == <<"u", "2">>
Title == <<"T", "B">>

Results(items) == [kind |-> "dict", has_results |-> TRUE, shopping_results |-> items]

ProviderOutcomes ==
    { [kind |-> "error", has_results |-> FALSE, shopping_results |-> <<>>],
      [kind |-> "notdict", has_results |-> FALSE, shopping_results |-> <<>>],
      [kind |-> "dict", has_results |-> FALSE, shopping_results |-> <<>>],
      Results(<<>>),
      Results(<<BadItem>>),
      Results(<<Item(PyNone, PyNone, Title, Rep(3), PyNone)>>),
      Results(<<Item(<<>>, <<>>, Title, PyNone, PyNone)>>),
      Results(<<Item(<<>>, Url2, Title, <<>>, Rep(DescLimit + 1))>>),
      Results(<<Item(PyNone, Url2, PyNone, PyNone, PyNone)>>),
      Results(<<Item(Url1, Url2, Title, Rep(3), Rep(5))>>),
      Results(<<Item(Url1, PyNone, <<>>, Rep(DescLimit), PyNone)>>),
      Results(<<Item(Url1, PyNone, Title, Rep(DescLimit - 1), PyNone),
                Item(Url2, PyNone, Title, PyNone, PyNone)>>) }

(***************************************************************************)
(* State.                                                                  *)
(*   buffer, msg_cnt   the fields of the one AdRecommender (lines 68-69)   *)
(*   th[t]             the chat call of caller t: where it is blocked and  *)
(*                     its locals, kept after the call ends as its record; *)
(*                     judge is "no", "called", "failed" or "returned",    *)
(*                     outcome is "none", "running", "returned", "raised"; *)
(*                     buf0 and cnt0 are buffer and msg_cnt when the call  *)
(*                     began, pre is the buffer before eviction, ext the   *)
(*                     external calls the call has made, in order          *)
(*   calls, raisedCnt, trigCnt   history: chat calls begun, calls that     *)
(*                     raised, trigger evaluations begun                   *)
(***************************************************************************)
VARIABLES buffer, msg_cnt, th, calls, raisedCnt, trigCnt

vars == <<buffer, msg_cnt, th, calls, raisedCnt, trigCnt>>

NoOutcome == [kind |-> "none", has_results |-> FALSE, shopping_results |-> <<>>]

NoVerdict == [raised |-> FALSE, related |-> FALSE, topic |-> PyNone, ps |-> PyNone]

IdleCall ==
    [pc |-> "idle", k |-> 0, user_msg |-> NoText, messages |-> <<>>,
     answer |-> NoText, judge |-> "no", snapshot |-> <<>>, raw |-> PyNone,
     verdict |-> NoVerdict, lookups |-> 0, out |-> NoOutcome,
     searchRaised |-> FALSE, product |-> NoProduct,
     outcome |-> "none", reply |-> NoText, pre |-> <<>>,
     buf0 |-> <<>>, cnt0 |-> 0, ext |-> <<>>]

\* A counter of the history, held at MaxCalls once the conversation is longer.
Sat(n) == IF n > MaxCalls THEN MaxCalls ELSE n

Init ==
    /\ buffer = <<>>
    /\ msg_cnt = 0
    /\ th = [t \in Threads |-> IdleCall]
    /\ calls = 0
    /\ raisedCnt = 0
    /\ trigCnt = 0

AllIdle == \A t \in Threads : th[t].pc = "idle"

(***************************************************************************)
(* chat, lines 129-144: bookkeeping and context, up to the blocking        *)
(* primary generation call.                                                *)
(***************************************************************************)
ChatBegin(t) ==
    /\ th[t].pc = "idle"
    /\ LET k == Sat(calls + 1)
           user_msg == UserMsg(k)
           appended == Append(buffer, Line("Q", user_msg))
           kept == Trim(appended)
       IN  /\ buffer' = kept
           /\ msg_cnt' = Sat(msg_cnt + 1)
           /\ calls' = k
           /\ th' = [th EXCEPT ![t] =
                       [IdleCall EXCEPT !.pc = "gen", !.k = k, !.user_msg = user_msg,
                                        !.messages = BuildMessages(kept, user_msg),
                                        !.outcome = "running", !.pre = appended,
                                        !.buf0 = buffer, !.cnt0 = msg_cnt,
                                        !.ext = <<"primary">>]]
    /\ UNCHANGED <<raisedCnt, trigCnt>>

\* The unsuffixed answer stored, the suffixed one returned.
StoreUnsuffixed(t, call, answer) ==
    /\ buffer' = Append(buffer, Line("A", call.answer))
    /\ th' = [th EXCEPT ![t] = [call EXCEPT !.pc = "idle", !.outcome = "returned",
                                            !.answer = answer, !.reply = answer]]

\* chat, lines 173-174.
StoreAndReturn(t, call, answer) ==
    /\ buffer' = Append(buffer, Line("A", answer))
    /\ th' = [th EXCEPT ![t] = [call EXCEPT !.pc = "idle", !.outcome = "returned",
                                            !.answer = answer, !.reply = answer]]

\* The primary generation call raises (line 144): the error surfaces.
PrimaryRaises(t) ==
    /\ th[t].pc = "gen"
    /\ raisedCnt < MaxFailures
    /\ th' = [th EXCEPT ![t].pc = "idle", ![t].outcome = "raised"]
    /\ raisedCnt' = Sat(raisedCnt + 1)
    /\ UNCHANGED <<buffer, msg_cnt, calls, trigCnt>>

\* The primary generation call returns; lines 159-161 up to the judge's
\* blocking call, or lines 173-174 when no trigger is due.
PrimaryReturns(t) ==
    /\ th[t].pc = "gen"
    /\ LET answer == AnswerText(th[t].k)
       IN  IF TriggerDue(msg_cnt)
           THEN /\ th' = [th EXCEPT ![t].pc = "judge", ![t].answer = answer,
                                    ![t].judge = "called",
                                    ![t].snapshot = Snapshot(buffer),
                                    ![t].ext = Append(@, "judge")]
                /\ trigCnt' = Sat(trigCnt + 1)
                /\ UNCHANGED <<buffer, msg_cnt>>
           ELSE /\ StoreAndReturn(t, th[t], answer)
                /\ UNCHANGED <<msg_cnt, trigCnt>>
    /\ UNCHANGED <<calls, raisedCnt>>

\* The judge's generation call raises (line 80): nothing catches it.
JudgeRaises(t) ==
    /\ th[t].pc = "judge"
    /\ raisedCnt < MaxFailures
    /\ th' = [th EXCEPT ![t].pc = "idle", ![t].outcome = "raised",
                        ![t].judge = "failed"]
    /\ raisedCnt' = Sat(raisedCnt + 1)
    /\ UNCHANGED <<buffer, msg_cnt, calls, trigCnt>>

\* The judge's generation call returns; lines 90-94, then lines 162-163 up
\* to the blocking search, or lines 170-174.
JudgeReturns(t) ==
    /\ th[t].pc = "judge"
    /\ \E text \in JudgeTexts :
         LET raw == StreamChat(Fragments(text))
             v == JudgeParse(raw)
             call == [th[t] EXCEPT !.raw = raw, !.verdict = v, !.judge = "returned"]
         IN  IF v.raised
             THEN /\ th' = [th EXCEPT ![t] = [call EXCEPT !.pc = "idle",
                                                           !.outcome = "raised"]]
                  /\ raisedCnt' = Sat(raisedCnt + 1)
                  /\ UNCHANGED <<buffer, msg_cnt>>
             ELSE IF WantsLookup(v.related, v.ps)
             THEN /\ th' = [th EXCEPT ![t] = [call EXCEPT !.pc = "shop",
                                                           !.ext = Append(@, "shop")]]
                  /\ UNCHANGED <<buffer, msg_cnt, raisedCnt>>
             ELSE /\ msg_cnt' = 0
                  /\ StoreAndReturn(t, call, th[t].answer)
                  /\ UNCHANGED raisedCnt
    /\ UNCHANGED <<calls, trigCnt>>

\* The shopping search ends (line 111); lines 112-124, then 164-174.
SearchEnds(t) ==
    /\ th[t].pc = "shop"
    /\ \E out \in ProviderOutcomes :
         LET r == ShoppingSearch(out)
             call == [th[t] EXCEPT !.lookups = @ + 1, !.out = out,
                                   !.searchRaised = r.raised, !.product = r.value]
         IN  IF r.raised
             THEN /\ th' = [th EXCEPT ![t] = [call EXCEPT !.pc = "idle",
                                                           !.outcome = "raised"]]
                  /\ raisedCnt' = Sat(raisedCnt + 1)
                  /\ UNCHANGED <<buffer, msg_cnt>>
             ELSE /\ msg_cnt' = 0
                  /\ StoreAndReturn(t, call,
                                    IF r.value.some THEN AddSuffix(th[t].answer)
                                    ELSE th[t].answer)
                  /\ UNCHANGED raisedCnt
    /\ UNCHANGED <<calls, trigCnt>>

Step(t) ==
    \/ PrimaryRaises(t)
    \/ PrimaryReturns(t)
    \/ JudgeRaises(t)
    \/ JudgeReturns(t)
    \/ SearchEnds(t)

(***************************************************************************)
(* Spec: one caller, one call at a time (main's loop, lines 181-188), at   *)
(* most MaxCalls calls.                                                    *)
(***************************************************************************)
Chat == calls < MaxCalls /\ ChatBegin(MainThread)

Next == Chat \/ Step(MainThread)

Spec == Init /\ [][Next]_vars

(***************************************************************************)
(* LiveSpec: the conversation never ends.  The caller always asks again    *)
(* and every blocking call ends, by returning or by raising; at most       *)
(* MaxFailures calls raise at the gateway.  calls, k and msg_cnt are held  *)
(* at MaxCalls, above TRIGGER_QS, where the code treats all values alike.  *)
(***************************************************************************)
ChatAgain == ChatBegin(MainThread)

LiveNext == ChatAgain \/ Step(MainThread)

LiveSpec == Init /\ [][LiveNext]_vars /\ WF_vars(LiveNext)

(***************************************************************************)
(* ConcSpec: two callers share the one AdRecommender; their chat calls     *)
(* interleave at the blocking external calls; at most MaxConcCalls calls.   *)
(***************************************************************************)
ConcChat(t) == calls < MaxConcCalls /\ ChatBegin(t)

ConcNext == \E t \in Threads : ConcChat(t) \/ Step(t)

ConcSpec == Init /\ [][ConcNext]_vars

(***************************************************************************)
(* Vocabulary of the properties.                                           *)
(***************************************************************************)
Alternates(buf) == \A i \in 1..(Len(buf) - 1) : buf[i].tag # buf[i + 1].tag

Ended(t) == th[t].pc = "idle" /\ th[t].outcome \in {"returned", "raised"}

Judged(t) == th[t].judge # "no"

\* The judge's response cannot be read as the three fields: fewer than three
\* lines, or a topic or suggestion line that holds no colon.
Malformed(raw) ==
    LET lines == SplitLines(raw)
    IN  \/ Len(lines) < 3
        \/ FirstColonFrom(lines[2], 1) = 0
        \/ FirstColonFrom(lines[3], 1) = 0

(***************************************************************************)
(* C1.  While every chat call so far has returned a reply, the judge is    *)
(* invoked during the k-th call if and only if k is a positive multiple of *)
(* TRIGGER_QS.                                                             *)
(***************************************************************************)
C1_TriggerAtMultiples ==
    \A t \in Threads :
      raisedCnt = 0 =>
        /\ Judged(t) => (th[t].k > 0 /\ th[t].k % TRIGGER_QS = 0)
        /\ (th[t].outcome = "returned" /\ th[t].k % TRIGGER_QS = 0) => Judged(t)

C1_Witness ==
    /\ raisedCnt = 0
    /\ th[MainThread].outcome = "returned"
    /\ th[MainThread].k = 2 * TRIGGER_QS
    /\ Judged(MainThread)
    /\ trigCnt = 2

(***************************************************************************)
(* C2.  In a conversation that never ends, some calls of which raise, the  *)
(* trigger evaluation runs infinitely often.                               *)
(***************************************************************************)
C2_TriggerNeverSkipped == []<>(th[MainThread].pc = "judge")

(***************************************************************************)
(* C3.  A trigger call whose judge call failed, or whose judge output was  *)
(* malformed, ends by returning the primary answer without a suffix, with  *)
(* the counter at 0.                                                       *)
(***************************************************************************)
C3_JudgeFailureDegraded ==
    \A t \in Threads :
      ( /\ Ended(t)
        /\ \/ th[t].judge = "failed"
           \/ th[t].judge = "returned" /\ Malformed(th[t].raw) )
      => /\ th[t].outcome = "returned"
         /\ th[t].reply = AnswerText(th[t].k)
         /\ msg_cnt = 0

(***************************************************************************)
(* C4.  The buffer never holds more than MAX_BUFFER_SIZE entries.          *)
(***************************************************************************)
C4_BufferBounded == Len(buffer) <= MAX_BUFFER_SIZE

(***************************************************************************)
(* C5.  Between chat calls, no two adjacent buffer entries have the same   *)
(* role.                                                                   *)
(***************************************************************************)
C5_AlternationBetweenCalls == AllIdle => Alternates(buffer)

(***************************************************************************)
(* C6.  Between chat calls the counter is in 0 .. TRIGGER_QS - 1, and it   *)
(* is 0 after a call in which the trigger evaluation was attempted.        *)
(***************************************************************************)
C6_CounterInRange ==
    AllIdle =>
      /\ msg_cnt \in 0..(TRIGGER_QS - 1)
      /\ \A t \in Threads : (Ended(t) /\ Judged(t) /\ th[t].k = calls) => msg_cnt = 0

(***************************************************************************)
(* C7.  A returned reply carries a suffix if and only if, in that call,    *)
(* the trigger was due, the verdict was coherent, the suggestion was not   *)
(* "None" in any letter case and the lookup returned a product; it never   *)
(* carries two, and the replies of calls 1 to 3 carry none.                *)
(***************************************************************************)
C7_SuffixIffAll ==
    \A t \in Threads :
      th[t].outcome = "returned" =>
        /\ th[t].reply.ads > 0 <=>
             /\ th[t].judge = "returned"
             /\ th[t].verdict.related
             /\ Lower(th[t].verdict.ps) # NoneLower
             /\ th[t].lookups = 1
             /\ th[t].product.some
        /\ th[t].reply.ads <= 1
        /\ th[t].k < TRIGGER_QS => th[t].reply.ads = 0

C7_Witness ==
    /\ th[MainThread].outcome = "returned"
    /\ th[MainThread].reply.ads = 1
    /\ th[MainThread].k = TRIGGER_QS
    /\ th[MainThread].verdict.related
    /\ th[MainThread].product.some

(***************************************************************************)
(* C8.  Parsing the judge's response never raises: every response gives a  *)
(* boolean and two strings, an absent topic or suggestion is "None", and a *)
(* malformed response is not coherent.                                     *)
(***************************************************************************)
C8_ParseTotal ==
    \A t \in Threads :
      th[t].judge = "returned" =>
        LET lines == SplitLines(th[t].raw)
        IN  /\ ~th[t].verdict.raised
            /\ th[t].verdict.related \in BOOLEAN
            /\ Len(lines) < 2 => th[t].verdict.topic = NoneStr
            /\ Len(lines) < 3 => th[t].verdict.ps = NoneStr
            /\ Malformed(th[t].raw) => ~th[t].verdict.related

(***************************************************************************)
(* C9.  The product lookup never raises: whatever the provider does, it    *)
(* gives no result or a product whose link is not empty, and on no result  *)
(* the chat call returns the answer without a suffix.                      *)
(***************************************************************************)
C9_LookupNeverRaises ==
    \A t \in Threads :
      th[t].lookups > 0 =>
        /\ ~th[t].searchRaised
        /\ th[t].product.some => th[t].product.link # <<>>
        /\ ~th[t].product.some =>
             /\ th[t].outcome = "returned"
             /\ th[t].reply = AnswerText(th[t].k)

C9_Witness ==
    /\ th[MainThread].lookups = 1
    /\ th[MainThread].out.kind = "error"
    /\ ~th[MainThread].product.some
    /\ th[MainThread].outcome = "returned"

(***************************************************************************)
(* C10.  When the chat calls of two callers interleave and none raises,    *)
(* the state once all have returned is one a serial execution gives: the   *)
(* buffer alternates and the trigger has run once per TRIGGER_QS calls.    *)
(***************************************************************************)
C10_SerialOutcome ==
    (AllIdle /\ raisedCnt = 0) =>
      /\ Alternates(buffer)
      /\ trigCnt = calls \div TRIGGER_QS

(***************************************************************************)
(* C11.  The description of every product the lookup returns has at most   *)
(* DescLimit + 1 characters and ends with the ellipsis marker, also when   *)
(* nothing was cut and when the source description is empty.               *)
(***************************************************************************)
C11_DescBounded ==
    \A t \in Threads :
      th[t].product.some =>
        /\ Len(th[t].product.desc) <= DescLimit + 1
        /\ EndsWith(th[t].product.desc, Ellipsis)

C11_Witness ==
    /\ th[MainThread].product.some
    /\ Len(th[MainThread].out.shopping_results[1].description) > DescLimit
    /\ ~Truthy(th[MainThread].out.shopping_results[1].snippet)
    /\ Len(th[MainThread].product.desc) = DescLimit + 1

(***************************************************************************)
(* C12.  The message list of the primary call is the system instruction,   *)
(* then the question/answer pairs retained in the buffer, each question as *)
(* user and each answer as assistant, then the new message once, as user.  *)
(* Stated for conversations in which no call has raised.                   *)
(***************************************************************************)
RECURSIVE PairsFrom(_, _)
PairsFrom(buf, i) ==
    IF i + 1 > Len(buf) THEN <<>>
    ELSE IF buf[i].tag = "Q" /\ buf[i + 1].tag = "A"
         THEN <<Msg("user", buf[i].body), Msg("assistant", buf[i + 1].body)>>
              \o PairsFrom(buf, i + 2)
         ELSE PairsFrom(buf, i + 1)

ExpectedMessages(buf, user_msg) ==
    <<SystemMsg>> \o PairsFrom(SubSeq(buf, 1, Len(buf) - 1), 1)
                  \o <<Msg("user", user_msg)>>

C12_MessageList ==
    \A t \in Threads :
      (raisedCnt = 0 /\ th[t].pc = "gen") =>
        th[t].messages = ExpectedMessages(buffer, th[t].user_msg)

(***************************************************************************)
(* C13.  A call whose primary generation raised made no judge call and no  *)
(* lookup, and left the buffer and the counter as they were before it.     *)
(***************************************************************************)
C13_FailedCallLeavesState ==
    \A t \in Threads :
      (Ended(t) /\ th[t].outcome = "raised" /\ th[t].judge = "no") =>
        /\ th[t].ext = <<"primary">>
        /\ th[t].lookups = 0
        /\ buffer = th[t].buf0
        /\ msg_cnt = th[t].cnt0

(***************************************************************************)
(* C14.  Trimming a buffer whose entries alternate gives a buffer whose    *)
(* entries alternate, for every capacity from 1 up.                        *)
(***************************************************************************)
C14_EvictionKeepsAlternation ==
    \A t \in Threads :
      \A cap \in 1..(MAX_BUFFER_SIZE + 1) :
        Alternates(th[t].pre) => Alternates(TrimTo(th[t].pre, cap))

C14_Witness ==
    /\ th[MainThread].pc = "gen"
    /\ Len(th[MainThread].pre) = MAX_BUFFER_SIZE + 1
    /\ Alternates(th[MainThread].pre)
    /\ Len(buffer) = MAX_BUFFER_SIZE
    /\ Alternates(buffer)

(***************************************************************************)
(* C15.  After the capacity is enforced the buffer is the last             *)
(* MAX_BUFFER_SIZE entries of the buffer before it, in their order, and    *)
(* its last entry is the question just appended.                           *)
(***************************************************************************)
C15_EvictionFifo ==
    \A t \in Threads :
      th[t].pc = "gen" =>
        LET pre == th[t].pre
            n == Len(buffer)
        IN  /\ n = Min(Len(pre), MAX_BUFFER_SIZE)
            /\ \A i \in 1..n : buffer[i] = pre[Len(pre) - n + i]
            /\ buffer[n] = Line("Q", th[t].user_msg)

C15_Witness ==
    /\ th[MainThread].pc = "gen"
    /\ Len(th[MainThread].pre) > MAX_BUFFER_SIZE
    /\ buffer[1] = th[MainThread].pre[2]
    /\ buffer[1] # th[MainThread].pre[1]

(***************************************************************************)
(* C16.  While every call has returned, the snapshot of the trigger in     *)
(* call k is the last SNAPSHOT_LINES buffer lines: questions k-3 .. k and  *)
(* the answers to k-3 .. k-1, in order, one per line.                      *)
(***************************************************************************)
WindowLine(k, i) ==
    IF i % 2 = 1
    THEN Line("Q", UserMsg(k - TRIGGER_QS + 1 + (i - 1) \div 2))
    ELSE Line("A", AnswerText(k - TRIGGER_QS + i \div 2))

ExpectedSnapshot(k) ==
    [j \in 1..(2 * SNAPSHOT_LINES - 1) |->
       IF j % 2 = 1 THEN WindowLine(k, (j + 1) \div 2) ELSE Newline]

C16_SnapshotWindow ==
    \A t \in Threads :
      (raisedCnt = 0 /\ Judged(t)) => th[t].snapshot = ExpectedSnapshot(th[t].k)

C16_Witness ==
    /\ raisedCnt = 0
    /\ th[MainThread].pc = "judge"
    /\ th[MainThread].k = 2 * TRIGGER_QS
    /\ Len(th[MainThread].pre) > MAX_BUFFER_SIZE

(***************************************************************************)
(* C17.  Within one call the external calls are made in the order primary, *)
(* judge, lookup: the judge only after the primary returned and only when  *)
(* the counter is at TRIGGER_QS, the lookup only after the judge of that   *)
(* call returned coherent with a suggestion other than "None", and once.   *)
(***************************************************************************)
C17_ExternalCallsGated ==
    \A t \in Threads :
      /\ Len(th[t].ext) <= 3
      /\ th[t].ext = SubSeq(<<"primary", "judge", "shop">>, 1, Len(th[t].ext))
      /\ Len(th[t].ext) >= 2 => th[t].answer # NoText
      /\ th[t].pc = "judge" => msg_cnt = TRIGGER_QS
      /\ Len(th[t].ext) = 3 =>
           /\ th[t].judge = "returned"
           /\ ~th[t].verdict.raised
           /\ th[t].verdict.related
           /\ Lower(th[t].verdict.ps) # NoneLower
      /\ th[t].lookups <= 1
      /\ th[t].lookups = 1 => Len(th[t].ext) = 3

C17_Witness ==
    /\ th[MainThread].ext = <<"primary", "judge", "shop">>
    /\ th[MainThread].lookups = 1
    /\ th[MainThread].outcome = "returned"

(***************************************************************************)
(* C18.  When chat has returned a reply, the last buffer entry is the      *)
(* assistant turn holding exactly the returned text, and the entry before  *)
(* it is the user turn of the question just asked.                         *)
(***************************************************************************)
C18_ReplyStored ==
    \A t \in Threads :
      (th[t].pc = "idle" /\ th[t].outcome = "returned") =>
        /\ Len(buffer) >= 2
        /\ buffer[Len(buffer)] = Line("A", th[t].reply)
        /\ buffer[Len(buffer) - 1] = Line("Q", th[t].user_msg)

C18_Witness ==
    /\ th[MainThread].pc = "idle"
    /\ th[MainThread].outcome = "returned"
    /\ th[MainThread].reply.ads = 1
    /\ buffer[Len(buffer)] = Line("A", th[MainThread].reply)

=============================================================================
